---- MODULE Spec2Model ----
(***************************************************************************)
(* VeriCore AI backend (src/backend/main.py): the demo simulator           *)
(* generate_demo_analysis, the response parser parse_llm_response and the  *)
(* /analyze handler analyze_content with its in-memory history.            *)
(*                                                                         *)
(* Abstractions.                                                           *)
(*  - A text is a run of `words` words of `wlen` characters each, joined   *)
(*    by single blanks, with `pad` blanks around it; `hash` is             *)
(*    int(md5(text).hexdigest()[:8], 16) and `numbers` / `percentages`     *)
(*    say whether a digit / a '%' occurs.                                  *)
(*  - The Mersenne Twister of the random module is a deterministic         *)
(*    generator over 0..RngMod-1: seed() sets its state from the seed,     *)
(*    randint() advances it and maps the new state into [a, b].            *)
(*  - A model completion is a sequence of lexical tokens; json_loads       *)
(*    decodes the token grammar given with it.                             *)
(*  - Narrative strings are records of the template and the values that    *)
(*    are interpolated into it.                                            *)
(***************************************************************************)
EXTENDS Integers, Sequences, FiniteSets, TLC

VARIABLES
    config,            \* os.environ: GEMINI_API_KEY and DEMO_MODE
    now,               \* datetime.now(), in seconds
    rng,               \* state of the process-wide generator of `random`
    analysis_history,  \* the module-level list analysis_history
    request,           \* the request analyze_content handled last
    response,          \* what it answered
    simFirst,          \* a call of generate_demo_analysis kept as reference
    simLast,           \* the latest call of generate_demo_analysis
    rawText,           \* the argument of parse_llm_response
    parsed             \* its return statement and value

vars == <<config, now, rng, analysis_history, request, response,
          simFirst, simLast, rawText, parsed>>

(***************************************************************************)
(* Bounds of the model.                                                    *)
(***************************************************************************)
MaxHash == 3
MaxClock == 2
MaxTokens == 5
MaxEntries == 2
MaxHistClock == 1

Min(a, b) == IF a <= b THEN a ELSE b
Max(a, b) == IF a >= b THEN a ELSE b

(***************************************************************************)
(* Texts.                                                                  *)
(***************************************************************************)
WordCounts == {3, 11, 21}
WordLens == {1, 30}

Texts ==
    { [hash |-> h, words |-> w, wlen |-> l, pad |-> 0,
       numbers |-> f[1], percentages |-> f[2]] :
        h \in 0..MaxHash, w \in WordCounts, l \in WordLens,
        f \in {<<FALSE, FALSE>>, <<TRUE, FALSE>>, <<TRUE, TRUE>>} }

Categories == {"legal", "finance", "compliance"}
ContextTypes == Categories \cup {"other"}

\* len(answer_text)
TextLen(t) == 2 * t.pad + (IF t.words = 0 THEN 0 ELSE t.words * t.wlen + (t.words - 1))
\* len(answer_text.strip())
StripLen(t) == IF t.words = 0 THEN 0 ELSE t.words * t.wlen + (t.words - 1)
\* len(' '.join(words[a:b]))
JoinLen(t, a, b) == IF b <= a THEN 0 ELSE (b - a) * t.wlen + (b - a - 1)

(***************************************************************************)
(* The generator of the random module.                                     *)
(***************************************************************************)
RngMod == 101
RngMul == 9
RngInc == 37

\* the generator left unseeded: the draws continue the process-wide state
seed_skipped(a) == rng

\* random.seed(a)
seed(a) == a % RngMod
\* one step of the generator
advance(s) == (s * RngMul + RngInc) % RngMod
\* random.randint(a, b) from state s: the value drawn and the state left
randint(s, a, b) == [val |-> a + (advance(s) % (b - a + 1)), st |-> advance(s)]

(***************************************************************************)
(* generate_demo_analysis.                                                 *)
(***************************************************************************)
\* score = max(20, min(95, base_score))
ClampScore(base_score) == Max(20, Min(95, base_score))

\* the High threshold taken strictly
LabelOf_strict(score) ==
    IF score > 75 THEN "High" ELSE IF score > 50 THEN "Medium" ELSE "Low"

\* the label thresholds
LabelOf(score) ==
    IF score >= 75 THEN "High" ELSE IF score >= 50 THEN "Medium" ELSE "Low"

\* num_issues = 1 if score >= 75 else (2 if score >= 50 else 3)
NumIssues(score) == IF score >= 75 THEN 1 ELSE IF score >= 50 THEN 2 ELSE 3

\* issue_templates: per context, the riskType of each slot in order; the
\* explanation and the hint of a slot are named by context and slot
TemplateRiskTypes == <<"hallucination", "compliance-risk", "uncertain">>

issue_templates(ctx) ==
    [i \in 1..3 |-> [riskType |-> TemplateRiskTypes[i],
                     explanation |-> <<ctx, i, "explanation">>,
                     humanCheckHint |-> <<ctx, i, "humanCheckHint">>]]

\* templates = issue_templates.get(context_type, issue_templates["legal"])
TemplatesFor(context_type) ==
    IF context_type \in Categories THEN issue_templates(context_type)
    ELSE issue_templates("legal")

\* ctx_name = context_names.get(context_type, "general")
CtxName(context_type) ==
    CASE context_type = "legal" -> "legal"
      [] context_type = "finance" -> "financial"
      [] context_type = "compliance" -> "regulatory compliance"
      [] OTHER -> "general"

\* context_type.upper()
Upper(context_type) ==
    CASE context_type = "legal" -> "LEGAL"
      [] context_type = "finance" -> "FINANCE"
      [] context_type = "compliance" -> "COMPLIANCE"
      [] OTHER -> "OTHER"

\* ' '.join(words[start:start+k]) as the span it covers and its length
WordSnippet(t, start, k) ==
    [kind |-> "words", from |-> start, to |-> Min(start + k, t.words),
     chars |-> JoinLen(t, start, Min(start + k, t.words)), ellipsis |-> FALSE]

\* answer_text[:50] + "..." if len(answer_text) > 50 else answer_text
PrefixSnippet(t) ==
    IF TextLen(t) > 50
    THEN [kind |-> "prefix", from |-> 0, to |-> 0, chars |-> 53, ellipsis |-> TRUE]
    ELSE [kind |-> "prefix", from |-> 0, to |-> 0, chars |-> TextLen(t),
          ellipsis |-> FALSE]

\* snippet[:100]
Cut100(sn) == [sn EXCEPT !.chars = Min(100, sn.chars)]

\* the draws of lines 204-212: the base score after the adjustments, and
\* the generator state left
DrawScore(t, s0) ==
    LET d1 == randint(s0, 45, 85)
        d2 == IF t.numbers /\ t.percentages THEN randint(d1.st, 5, 15)
              ELSE [val |-> 0, st |-> d1.st]
        d3 == IF TextLen(t) > 500 THEN randint(d2.st, 0, 10)
              ELSE [val |-> 0, st |-> d2.st]
        d4 == IF t.words < 20 THEN randint(d3.st, 5, 10)
              ELSE [val |-> 0, st |-> d3.st]
    IN  [val |-> d1.val - d2.val - d3.val + d4.val, st |-> d4.st]

\* lines 225-234: the snippets, and the generator state left
DrawSnippets(t, s0) ==
    LET a1 == randint(s0, 0, Min(5, t.words - 5))
        a2 == randint(a1.st, 4, 8)
        first == IF t.words > 10 THEN <<WordSnippet(t, a1.val, a2.val)>> ELSE <<>>
        s1 == IF t.words > 10 THEN a2.st ELSE s0
        b1 == randint(s1, 10, Min(15, t.words - 5))
        b2 == randint(b1.st, 4, 8)
        second == IF t.words > 20 THEN <<WordSnippet(t, b1.val, b2.val)>> ELSE <<>>
        s2 == IF t.words > 20 THEN b2.st ELSE s1
        snippets == first \o second
    IN  [val |-> IF snippets = <<>> THEN <<PrefixSnippet(t)>> ELSE snippets,
         st |-> s2]

\* the issue count not capped by the number of snippets
MakeIssues_uncapped(score, snippets, templates) ==
    [j \in 1..Min(NumIssues(score), Len(templates)) |->
        LET i == j - 1
            template == templates[(i % Len(templates)) + 1]
        IN  [snippet |-> Cut100(snippets[(i % Len(snippets)) + 1]),
             riskType |-> template.riskType,
             explanation |-> template.explanation,
             humanCheckHint |-> template.humanCheckHint,
             has |-> {"snippet", "riskType", "explanation", "humanCheckHint"}]]

\* lines 258-267: the issues
MakeIssues(score, snippets, templates) ==
    [j \in 1..Min(NumIssues(score), Min(Len(snippets), Len(templates))) |->
        LET i == j - 1
            template == templates[(i % Len(templates)) + 1]
        IN  [snippet |-> Cut100(snippets[(i % Len(snippets)) + 1]),
             riskType |-> template.riskType,
             explanation |-> template.explanation,
             humanCheckHint |-> template.humanCheckHint,
             has |-> {"snippet", "riskType", "explanation", "humanCheckHint"}]]

AnalysisKeys == {"score", "label", "issues", "complianceReport", "ndaauditNote"}

\* generate_demo_analysis(answer_text, context_type) called at clock `time`:
\* the dict it returns and the state it leaves in the process-wide generator
generate_demo_analysis(answer_text, context_type, time) ==
    LET text_hash == answer_text.hash
        s0 == seed(text_hash)
        base == DrawScore(answer_text, s0)
        score == ClampScore(base.val)
        label == LabelOf(score)
        sn == DrawSnippets(answer_text, base.st)
        issues == MakeIssues(score, sn.val, TemplatesFor(context_type))
    IN  [result |->
            [kind |-> "object", has |-> AnalysisKeys,
             score |-> score, label |-> label, issues |-> issues,
             complianceReport |->
                [template |-> label, ctx |-> CtxName(context_type), score |-> score],
             ndaauditNote |->
                [template |-> "demo", time |-> time, ctx |-> Upper(context_type),
                 score |-> score, label |-> label, flagged |-> Len(issues)]],
         rng |-> sn.st]

(***************************************************************************)
(* Values shared by the operations.                                        *)
(***************************************************************************)
NoText == [hash |-> 0, words |-> 0, wlen |-> 0, pad |-> 0,
           numbers |-> FALSE, percentages |-> FALSE]

NoReport == [template |-> "", ctx |-> "", score |-> 0]
NoNote == [template |-> "", time |-> 0, ctx |-> "", score |-> 0, label |-> "",
           flagged |-> 0]

NoAnalysis ==
    [kind |-> "none", has |-> {}, score |-> 0, label |-> "", issues |-> <<>>,
     complianceReport |-> NoReport, ndaauditNote |-> NoNote]

NoVoice == [spoken |-> FALSE, tone |-> "", score |-> 0, issues |-> 0, ctx |-> ""]

NoBody ==
    [score |-> 0, label |-> "", issues |-> <<>>, complianceReport |-> NoReport,
     ndaauditNote |-> NoNote, voiceSummary |-> NoVoice, timestamp |-> 0]

NoResponse == [status |-> 0, body |-> NoBody]

NoCall == [called |-> FALSE, text |-> NoText, ctx |-> "", at |-> 0,
           result |-> NoAnalysis]

(***************************************************************************)
(* The clock.                                                              *)
(***************************************************************************)
Tick ==
    /\ now < MaxClock
    /\ now' = now + 1
    /\ UNCHANGED <<config, rng, analysis_history, request, response,
                   simFirst, simLast, rawText, parsed>>

(***************************************************************************)
(* Calls of generate_demo_analysis.                                        *)
(***************************************************************************)
Call(t, c) ==
    [called |-> TRUE, text |-> t, ctx |-> c, at |-> now,
     result |-> generate_demo_analysis(t, c, now).result]

\* a call whose result is observed
Simulate(t, c) ==
    /\ simLast' = Call(t, c)
    /\ rng' = generate_demo_analysis(t, c, now).rng
    /\ UNCHANGED <<config, now, analysis_history, request, response,
                   simFirst, rawText, parsed>>

\* the call kept as reference
SimulateFirst(t, c) ==
    /\ ~simFirst.called
    /\ simFirst' = Call(t, c)
    /\ rng' = generate_demo_analysis(t, c, now).rng
    /\ UNCHANGED <<config, now, analysis_history, request, response,
                   simLast, rawText, parsed>>

\* a call with other arguments, between the reference call and its repetition
SimulateBetween(t, c) ==
    /\ simFirst.called
    /\ <<t, c>> /= <<simFirst.text, simFirst.ctx>>
    /\ rng' = generate_demo_analysis(t, c, now).rng
    /\ UNCHANGED <<config, now, analysis_history, request, response,
                   simFirst, simLast, rawText, parsed>>

\* the reference call repeated with identical arguments
SimulateAgain ==
    /\ simFirst.called
    /\ simLast' = Call(simFirst.text, simFirst.ctx)
    /\ rng' = generate_demo_analysis(simFirst.text, simFirst.ctx, now).rng
    /\ UNCHANGED <<config, now, analysis_history, request, response,
                   simFirst, rawText, parsed>>

NoConfig == [apiKey |-> "unset", demoMode |-> "unset"]
NoRequest == [text |-> NoText, contextType |-> "", voiceMode |-> FALSE,
              mode |-> "none", ext |-> [raises |-> TRUE, text |-> <<>>]]
NoParsed == [site |-> 0, value |-> NoAnalysis]

InitDemo ==
    /\ config = NoConfig
    /\ now = 0
    /\ rng \in 0..MaxHash
    /\ analysis_history = <<>>
    /\ request = NoRequest
    /\ response = NoResponse
    /\ simFirst = NoCall
    /\ simLast = NoCall
    /\ rawText = <<>>
    /\ parsed = NoParsed

NextDemo == \E t \in Texts, c \in ContextTypes : Simulate(t, c)

SpecDemo == InitDemo /\ [][NextDemo]_vars

\* the texts of the calls made in between: one of each hash
BetweenTexts == { t \in Texts : t.words = 3 /\ t.wlen = 1 /\ ~t.numbers }

NextRepeat ==
    \/ Tick
    \/ \E t \in Texts, c \in ContextTypes : SimulateFirst(t, c)
    \/ \E t \in BetweenTexts : SimulateBetween(t, "legal")
    \/ SimulateAgain

SpecRepeat == InitDemo /\ [][NextRepeat]_vars

(***************************************************************************)
(* Completions and JSON.  A completion is a sequence of tokens: the        *)
(* braces, the triple backtick, the language tag json, a blank, a prose    *)
(* word, a digit, and the member lists of the JSON objects in MemberTokens *)
(* (each the text between the braces of one object).                       *)
(***************************************************************************)
LB == "{"
RB == "}"
FENCE == "fence"
TAG == "json"
WS == " "
PROSE == "x"
DIGIT == "7"

WellFormedIssue ==
    [snippet |-> [kind |-> "llm", from |-> 0, to |-> 0, chars |-> 20,
                  ellipsis |-> FALSE],
     riskType |-> "hallucination",
     explanation |-> <<"llm", 1, "explanation">>,
     humanCheckHint |-> <<"llm", 1, "humanCheckHint">>,
     has |-> {"snippet", "riskType", "explanation", "humanCheckHint"}]

\* an issue object without its humanCheckHint member
IssueWithoutHint ==
    [WellFormedIssue EXCEPT !.has = {"snippet", "riskType", "explanation"},
                            !.riskType = "uncertain"]

LlmReport == [template |-> "llm", ctx |-> "", score |-> 0]
LlmNote == [NoNote EXCEPT !.template = "llm"]

\* the object of the documented output format
FullObject ==
    [kind |-> "object", has |-> AnalysisKeys, score |-> 80, label |-> "High",
     issues |-> <<WellFormedIssue>>,
     complianceReport |-> LlmReport, ndaauditNote |-> LlmNote]

\* the objects the member tokens spell out
MemberObject(tok) ==
    CASE tok = "FULL" -> FullObject
      [] tok = "OUT_OF_RANGE" ->
            [FullObject EXCEPT !.score = 150, !.label = "Excellent"]
      [] tok = "NEGATIVE" -> [FullObject EXCEPT !.score = -5, !.label = "Low"]
      [] tok = "BAD_ISSUE" ->
            [FullObject EXCEPT !.score = 40, !.label = "Low",
                               !.issues = <<WellFormedIssue, IssueWithoutHint>>]
      [] tok = "SCORE_ONLY" ->
            [NoAnalysis EXCEPT !.kind = "object", !.has = {"score"}, !.score = 30]

MemberTokens == {"FULL", "OUT_OF_RANGE", "NEGATIVE", "BAD_ISSUE", "SCORE_ONLY"}

RECURSIVE LStrip(_)
LStrip(s) == IF s /= <<>> /\ Head(s) = WS THEN LStrip(Tail(s)) ELSE s

RECURSIVE RStrip(_)
RStrip(s) ==
    IF s /= <<>> /\ s[Len(s)] = WS THEN RStrip(SubSeq(s, 1, Len(s) - 1)) ELSE s

Strip(s) == RStrip(LStrip(s))

DecodeError == [ok |-> FALSE, value |-> NoAnalysis]

\* json.loads: blanks around the document and inside the braces are skipped;
\* a run of digits is a number, {} the empty object, and braces around one
\* member list that object; everything else raises JSONDecodeError
json_loads(s) ==
    LET doc == Strip(s)
        inner == Strip(SubSeq(doc, 2, Len(doc) - 1))
    IN  IF doc = <<>> THEN DecodeError
        ELSE IF \A i \in 1..Len(doc) : doc[i] = DIGIT
        THEN [ok |-> TRUE,
              value |-> [NoAnalysis EXCEPT !.kind = "number", !.score = Len(doc)]]
        ELSE IF Len(doc) >= 2 /\ doc[1] = LB /\ doc[Len(doc)] = RB
        THEN IF inner = <<>>
             THEN [ok |-> TRUE, value |-> [NoAnalysis EXCEPT !.kind = "object"]]
             ELSE IF Len(inner) = 1 /\ inner[1] \in MemberTokens
             THEN [ok |-> TRUE, value |-> MemberObject(inner[1])]
             ELSE DecodeError
        ELSE DecodeError

NoMatch == [found |-> FALSE, group |-> <<>>]

\* the position after the blanks that start at j (greedy \s*)
RECURSIVE SkipBlanks(_, _)
SkipBlanks(text, j) ==
    IF j <= Len(text) /\ text[j] = WS THEN SkipBlanks(text, j + 1) ELSE j

\* the tail \s* FENCE of the pattern matches at position e
ClosesAt(text, e) ==
    LET k == SkipBlanks(text, e) IN k <= Len(text) /\ text[k] = FENCE

\* the lazy group [\s\S]*? from j: the first end e >= j where the tail matches,
\* or 0 when none does
RECURSIVE LazyEnd(_, _)
LazyEnd(text, e) ==
    IF e > Len(text) THEN 0
    ELSE IF ClosesAt(text, e) THEN e
    ELSE LazyEnd(text, e + 1)

\* the pattern FENCE (?:json)? \s* ([\s\S]*?) \s* FENCE tried at position i
FenceMatchAt(text, i) ==
    IF text[i] /= FENCE THEN NoMatch
    ELSE LET j == IF i + 1 <= Len(text) /\ text[i + 1] = TAG THEN i + 2 ELSE i + 1
             g == SkipBlanks(text, j)
             e == LazyEnd(text, g)
         IN  IF e = 0 THEN NoMatch
             ELSE [found |-> TRUE, group |-> SubSeq(text, g, e - 1)]

\* re.search of that pattern in response_text: the leftmost match, group(1)
RECURSIVE FenceSearchFrom(_, _)
FenceSearchFrom(text, i) ==
    IF i > Len(text) THEN NoMatch
    ELSE IF FenceMatchAt(text, i).found THEN FenceMatchAt(text, i)
    ELSE FenceSearchFrom(text, i + 1)

FenceSearch(text) == FenceSearchFrom(text, 1)

\* the greedy [\s\S]*\} from i: the last '}' after i, or 0
RECURSIVE LastBraceFrom(_, _, _)
LastBraceFrom(text, i, k) ==
    IF k <= i THEN 0
    ELSE IF text[k] = RB THEN k
    ELSE LastBraceFrom(text, i, k - 1)

\* re.search of \{[\s\S]*\} in response_text: the leftmost match, group(0)
RECURSIVE BraceSearchFrom(_, _)
BraceSearchFrom(text, i) ==
    IF i > Len(text) THEN NoMatch
    ELSE IF text[i] = LB /\ LastBraceFrom(text, i, Len(text)) /= 0
    THEN [found |-> TRUE,
          group |-> SubSeq(text, i, LastBraceFrom(text, i, Len(text)))]
    ELSE BraceSearchFrom(text, i + 1)

\* the braces pattern matched lazily: from the first '{' to the next '}'
RECURSIVE NextBraceFrom(_, _)
NextBraceFrom(text, k) ==
    IF k > Len(text) THEN 0
    ELSE IF text[k] = RB THEN k
    ELSE NextBraceFrom(text, k + 1)

RECURSIVE BraceSearchLazyFrom(_, _)
BraceSearchLazyFrom(text, i) ==
    IF i > Len(text) THEN NoMatch
    ELSE IF text[i] = LB /\ NextBraceFrom(text, i + 1) /= 0
    THEN [found |-> TRUE, group |-> SubSeq(text, i, NextBraceFrom(text, i + 1))]
    ELSE BraceSearchLazyFrom(text, i + 1)

BraceSearch_lazy(text) == BraceSearchLazyFrom(text, 1)

BraceSearch(text) == BraceSearchFrom(text, 1)

\* the record of lines 147-158
FallbackIssue ==
    [snippet |-> [kind |-> "fallback", from |-> 0, to |-> 0, chars |-> 27,
                  ellipsis |-> FALSE],
     riskType |-> "uncertain",
     explanation |-> <<"fallback", 1, "explanation">>,
     humanCheckHint |-> <<"fallback", 1, "humanCheckHint">>,
     has |-> {"snippet", "riskType", "explanation", "humanCheckHint"}]

Fallback ==
    [kind |-> "object", has |-> AnalysisKeys, score |-> 50, label |-> "Medium",
     issues |-> <<FallbackIssue>>,
     complianceReport |-> [template |-> "fallback", ctx |-> "", score |-> 0],
     ndaauditNote |-> [NoNote EXCEPT !.template = "fallback"]]

\* the return statements of parse_llm_response
ReturnWhole == 126
ReturnFenced == 134
ReturnBraces == 142
ReturnFallback == 147

\* parse_llm_response(response_text): the return statement taken and the value
parse_llm_response(response_text) ==
    LET whole == json_loads(response_text)
        fence == FenceSearch(response_text)
        fenced == json_loads(fence.group)
        brace == BraceSearch(response_text)
        braced == json_loads(brace.group)
    IN  IF whole.ok THEN [site |-> ReturnWhole, value |-> whole.value]
        ELSE IF fence.found /\ fenced.ok
        THEN [site |-> ReturnFenced, value |-> fenced.value]
        ELSE IF brace.found /\ braced.ok
        THEN [site |-> ReturnBraces, value |-> braced.value]
        ELSE [site |-> ReturnFallback, value |-> Fallback]

(***************************************************************************)
(* parse_llm_response applied to a completion.                             *)
(***************************************************************************)
ParseTokens == {LB, RB, FENCE, TAG, WS, PROSE, DIGIT, "FULL"}

RawTexts == UNION { [1..n -> ParseTokens] : n \in 0..MaxTokens }

Parse ==
    /\ parsed.site = 0
    /\ parsed' = parse_llm_response(rawText)
    /\ UNCHANGED <<config, now, rng, analysis_history, request, response,
                   simFirst, simLast, rawText>>

InitParse ==
    /\ config = NoConfig
    /\ now = 0
    /\ rng = 0
    /\ analysis_history = <<>>
    /\ request = NoRequest
    /\ response = NoResponse
    /\ simFirst = NoCall
    /\ simLast = NoCall
    /\ rawText \in RawTexts
    /\ parsed = NoParsed

NextParse == Parse

SpecParse == InitParse /\ [][NextParse]_vars

(***************************************************************************)
(* The /analyze handler.                                                   *)
(***************************************************************************)
\* DEMO_MODE values and str.lower() on them
Lower(v) == IF v \in {"TRUE", "True"} THEN "true" ELSE v

\* os.getenv("DEMO_MODE", "")
DemoModeEnv == IF config.demoMode = "unset" THEN "" ELSE config.demoMode

\* the mode read from the environment as a cached copy would hold it
use_demo_mode_cached ==
    IF request.mode = "none"
    THEN config.apiKey \in {"unset", ""} \/ Lower(DemoModeEnv) = "true"
    ELSE request.mode = "demo"

\* use_demo_mode = not api_key or os.getenv("DEMO_MODE", "").lower() == "true"
use_demo_mode ==
    config.apiKey \in {"unset", ""} \/ Lower(DemoModeEnv) = "true"

\* analysis.get(key, default)
Get(analysis, key, default) ==
    IF key \in analysis.has THEN analysis[key] ELSE default

\* generate_voice_summary(analysis, context_type)
generate_voice_summary(analysis, context_type) ==
    LET label == Get(analysis, "label", "Medium")
    IN  [spoken |-> TRUE,
         tone |-> IF label = "High" THEN "trustworthy"
                  ELSE IF label = "Medium" THEN "concern" ELSE "risks",
         score |-> Get(analysis, "score", 50),
         issues |-> Len(Get(analysis, "issues", <<>>)),
         ctx |-> CASE context_type = "legal" -> "legal"
                   [] context_type = "finance" -> "financial"
                   [] context_type = "compliance" -> "compliance"
                   [] OTHER -> ""]

\* Issue(**issue): pydantic accepts the entry when the four fields are there
IssueFields == {"snippet", "riskType", "explanation", "humanCheckHint"}
IssueValid(issue) == IssueFields \subseteq issue.has

\* the external call: it raises, or it returns a completion
Raises == [raises |-> TRUE, text |-> <<>>]
Completes(text) == [raises |-> FALSE, text |-> text]

\* request.answerText[:40] + "..." if len(request.answerText) > 40 else ...
InputPreview(t) ==
    IF TextLen(t) > 40 THEN [chars |-> 43, ellipsis |-> TRUE]
    ELSE [chars |-> TextLen(t), ellipsis |-> FALSE]

\* the statement of lines 320-376 that raised, caught at line 378
Failed == [status |-> 500, body |-> NoBody]

\* lines 344-361: the response built from an analysis
BuildResponse(req, analysis) ==
    IF analysis.kind /= "object" THEN Failed
    ELSE IF \E i \in 1..Len(Get(analysis, "issues", <<>>)) :
                ~IssueValid(Get(analysis, "issues", <<>>)[i])
    THEN Failed
    ELSE [status |-> 200,
          body |-> [score |-> Get(analysis, "score", 50),
                    label |-> Get(analysis, "label", "Medium"),
                    issues |-> Get(analysis, "issues", <<>>),
                    complianceReport |-> Get(analysis, "complianceReport", NoReport),
                    ndaauditNote |-> Get(analysis, "ndaauditNote", NoNote),
                    voiceSummary |->
                        IF req.voiceMode
                        THEN generate_voice_summary(analysis, req.contextType)
                        ELSE NoVoice,
                    timestamp |-> now]]

\* the external failure answered with the parser's fallback record
CallModel_fallback(req, ext) ==
    IF ext.raises THEN BuildResponse(req, Fallback)
    ELSE BuildResponse(req, parse_llm_response(ext.text).value)

\* lines 326-342 and what the handler makes of them: generate_content or
\* response.text raises, or the completion is parsed
CallModel(req, ext) ==
    IF ext.raises THEN Failed
    ELSE BuildResponse(req, parse_llm_response(ext.text).value)

\* the pop of line 374 taken at the other end of the list
Evict_newest(history) ==
    IF Len(history) > 50 THEN Tail(history) ELSE history

\* lines 373-374: if len(analysis_history) > 50: analysis_history.pop()
Evict(history) ==
    IF Len(history) > 50 THEN SubSeq(history, 1, Len(history) - 1) ELSE history

\* lines 364-374: the history after a response was built
Store(req, resp) ==
    Evict(<<[timestamp |-> resp.body.timestamp,
             contextType |-> req.contextType,
             label |-> resp.body.label,
             score |-> resp.body.score,
             inputPreview |-> InputPreview(req.text),
             voiceMode |-> req.voiceMode]>> \o analysis_history)

\* lines 310-314
Invalid(req) ==
    \/ TextLen(req.text) = 0
    \/ StripLen(req.text) < 10
    \/ req.contextType \notin {"legal", "finance", "compliance"}

\* analyze_content(request) with the external call behaving as ext
Analyze(req, ext) ==
    LET demo == generate_demo_analysis(req.text, req.contextType, now)
        resp == IF use_demo_mode THEN BuildResponse(req, demo.result)
                ELSE CallModel(req, ext)
    IN  IF Invalid(req)
        THEN /\ response' = [status |-> 400, body |-> NoBody]
             /\ request' = [text |-> req.text, contextType |-> req.contextType,
                            voiceMode |-> req.voiceMode, mode |-> "none",
                            ext |-> Raises]
             /\ UNCHANGED <<config, now, rng, analysis_history,
                            simFirst, simLast, rawText, parsed>>
        ELSE /\ response' = resp
             /\ request' = [text |-> req.text, contextType |-> req.contextType,
                            voiceMode |-> req.voiceMode,
                            mode |-> IF use_demo_mode THEN "demo" ELSE "live",
                            ext |-> IF use_demo_mode THEN Raises ELSE ext]
             /\ rng' = IF use_demo_mode THEN demo.rng ELSE rng
             /\ analysis_history' =
                    IF resp.status = 200 THEN Store(req, resp) ELSE analysis_history
             /\ UNCHANGED <<config, now, simFirst, simLast, rawText, parsed>>

\* the environment changed between requests
SetEnv(key, flag) ==
    /\ config /= [apiKey |-> key, demoMode |-> flag]
    /\ config' = [apiKey |-> key, demoMode |-> flag]
    /\ UNCHANGED <<now, rng, analysis_history, request, response,
                   simFirst, simLast, rawText, parsed>>

ApiKeys == {"unset", "", "key"}
DemoModes == {"unset", "true", "TRUE", "false"}

ShortText == [hash |-> 1, words |-> 3, wlen |-> 1, pad |-> 0,
              numbers |-> FALSE, percentages |-> FALSE]
BlankText == [hash |-> 2, words |-> 0, wlen |-> 0, pad |-> 6,
              numbers |-> FALSE, percentages |-> FALSE]
LongText == [hash |-> 0, words |-> 21, wlen |-> 30, pad |-> 0,
             numbers |-> TRUE, percentages |-> TRUE]

\* three requests that fail validation and one that passes it
Requests ==
    { [text |-> ShortText, contextType |-> "legal", voiceMode |-> FALSE],
      [text |-> BlankText, contextType |-> "legal", voiceMode |-> FALSE],
      [text |-> LongText, contextType |-> "other", voiceMode |-> FALSE],
      [text |-> LongText, contextType |-> "legal", voiceMode |-> TRUE] }

Completions ==
    { <<LB, "FULL", RB>>,
      <<FENCE, TAG, WS, LB, "FULL", RB, WS, FENCE>>,
      <<PROSE, PROSE>>,
      <<DIGIT>>,
      <<LB, "OUT_OF_RANGE", RB>>,
      <<LB, "BAD_ISSUE", RB>>,
      <<PROSE, LB, "SCORE_ONLY", RB>> }

Externals == {Raises} \cup { Completes(c) : c \in Completions }

Init ==
    /\ config \in [apiKey : ApiKeys, demoMode : DemoModes]
    /\ now = 0
    /\ rng = 0
    /\ analysis_history = <<>>
    /\ request = NoRequest
    /\ response = NoResponse
    /\ simFirst = NoCall
    /\ simLast = NoCall
    /\ rawText = <<>>
    /\ parsed = NoParsed

Next ==
    \/ \E key \in ApiKeys, flag \in DemoModes : SetEnv(key, flag)
    \/ \E req \in Requests, ext \in Externals :
          /\ Len(analysis_history) < MaxEntries
          /\ Analyze(req, ext)

Spec == Init /\ [][Next]_vars

(***************************************************************************)
(* The history under load: one kind of successful request, a request that  *)
(* fails validation and a live request whose external call fails.          *)
(***************************************************************************)
TickHistory ==
    /\ now < MaxHistClock
    /\ now' = now + 1
    /\ UNCHANGED <<config, rng, analysis_history, request, response,
                   simFirst, simLast, rawText, parsed>>

HistoryRequests ==
    [text : {ShortText, LongText}, contextType : {"legal"}, voiceMode : {TRUE}]

InitHistory ==
    /\ config = [apiKey |-> "unset", demoMode |-> "unset"]
    /\ now = 0
    /\ rng = 0
    /\ analysis_history = <<>>
    /\ request = NoRequest
    /\ response = NoResponse
    /\ simFirst = NoCall
    /\ simLast = NoCall
    /\ rawText = <<>>
    /\ parsed = NoParsed

NextHistory ==
    \/ TickHistory
    \/ \E key \in {"unset", "key"} : SetEnv(key, "unset")
    \/ \E req \in HistoryRequests : Analyze(req, Raises)

SpecHistory == InitHistory /\ [][NextHistory]_vars

(***************************************************************************)
(* Claims about the demo simulator.                                        *)
(***************************************************************************)
\* C1: every result of generate_demo_analysis has 20 <= score <= 95, and its
\* label is High exactly when score >= 75, Medium exactly when
\* 50 <= score < 75, and Low exactly when score < 50.
C1_ScoreRangeAndLabel ==
    simLast.called =>
        LET r == simLast.result
        IN  /\ 20 <= r.score /\ r.score <= 95
            /\ r.label \in {"High", "Medium", "Low"}
            /\ (r.label = "High") <=> (r.score >= 75)
            /\ (r.label = "Medium") <=> (50 <= r.score /\ r.score < 75)
            /\ (r.label = "Low") <=> (r.score < 50)

\* a call that scored exactly at the High threshold
C1_Witness ==
    /\ simLast.called
    /\ simLast.result.score = 75
    /\ simLast.result.label = "High"

\* the same fields of two results
C2_SameCore(a, b) ==
    /\ a.score = b.score
    /\ a.label = b.label
    /\ a.issues = b.issues
    /\ a.complianceReport = b.complianceReport

C5_SnippetCount(t) == IF t.words > 20 THEN 2 ELSE 1

C5_IssueCountForLabel(label) ==
    CASE label = "High" -> 1 [] label = "Medium" -> 2 [] label = "Low" -> 3

C5_Table == <<"hallucination", "compliance-risk", "uncertain">>

\* C5: the number of issues of a demo result is
\* min(issueCountForLabel, snippetCount, 3), never above 3, and the i-th issue
\* (0-based) has the riskType of slot i mod 3 of the category table.
C5_IssueCount ==
    simLast.called =>
        LET r == simLast.result
            n == Len(r.issues)
        IN  /\ n = Min(C5_IssueCountForLabel(r.label),
                       Min(C5_SnippetCount(simLast.text), 3))
            /\ n <= 3
            /\ \A i \in 0..(n - 1) : r.issues[i + 1].riskType = C5_Table[(i % 3) + 1]

\* a Low result whose three wanted issues are capped by its two snippets
C5_Witness ==
    /\ simLast.called
    /\ simLast.result.label = "Low"
    /\ simLast.text.words = 21
    /\ Len(simLast.result.issues) = 2
    /\ simLast.result.issues[2].riskType = "compliance-risk"

(***************************************************************************)
(* Claims about the response parser.                                       *)
(***************************************************************************)
\* a dict with the five members of an analysis
C3_Shaped(v) == v.kind = "object" /\ AnalysisKeys \subseteq v.has

\* C3: parse_llm_response returns, for every input, a record with score,
\* label, issues, complianceReport and audit note, also when the input or an
\* extracted substring is valid JSON that is not such an object.
C3_AlwaysShaped == parsed.site /= 0 => C3_Shaped(parsed.value)

\* the positions of the triple backticks
C4_Fences(text) == { i \in 1..Len(text) : text[i] = FENCE }

C4_Least(S) == CHOOSE i \in S : \A j \in S : i <= j
C4_Greatest(S) == CHOOSE i \in S : \A j \in S : i >= j

\* the first fenced block exists
C4_HasBlock(text) == Cardinality(C4_Fences(text)) >= 2

\* its interior: what stands between the first triple backtick, with the tag
\* json when it follows directly, and the next triple backtick
C4_Interior(text) ==
    LET open == C4_Least(C4_Fences(text))
        close == C4_Least(C4_Fences(text) \ {open})
        from == IF text[open + 1] = TAG THEN open + 2 ELSE open + 1
    IN  Strip(SubSeq(text, from, close - 1))

\* the substring from the first '{' to the last '}' exists
C4_HasBraces(text) ==
    /\ \E i \in 1..Len(text) : text[i] = LB
    /\ \E k \in 1..Len(text) : text[k] = RB
    /\ C4_Least({ i \in 1..Len(text) : text[i] = LB })
          < C4_Greatest({ k \in 1..Len(text) : text[k] = RB })

C4_Braces(text) ==
    SubSeq(text, C4_Least({ i \in 1..Len(text) : text[i] = LB }),
                 C4_Greatest({ k \in 1..Len(text) : text[k] = RB }))

C4_Ok1(text) == json_loads(text).ok
C4_Ok2(text) == C4_HasBlock(text) /\ json_loads(C4_Interior(text)).ok
C4_Ok3(text) == C4_HasBraces(text) /\ json_loads(C4_Braces(text)).ok

\* C4: the three strategies are tried in the order whole text, interior of
\* the first fenced block, first '{' to last '}'; the value of the first that
\* decodes is returned; the fallback record (score 50, label Medium, one
\* issue of riskType uncertain) is returned if and only if all three fail.
C4_FirstSuccessWins ==
    parsed.site /= 0 =>
        /\ C4_Ok1(rawText) =>
              parsed = [site |-> ReturnWhole, value |-> json_loads(rawText).value]
        /\ (~C4_Ok1(rawText) /\ C4_Ok2(rawText)) =>
              parsed = [site |-> ReturnFenced,
                        value |-> json_loads(C4_Interior(rawText)).value]
        /\ (~C4_Ok1(rawText) /\ ~C4_Ok2(rawText) /\ C4_Ok3(rawText)) =>
              parsed = [site |-> ReturnBraces,
                        value |-> json_loads(C4_Braces(rawText)).value]
        /\ (parsed.site = ReturnFallback)
              <=> (~C4_Ok1(rawText) /\ ~C4_Ok2(rawText) /\ ~C4_Ok3(rawText))
        /\ parsed.site = ReturnFallback =>
              /\ parsed.value.score = 50
              /\ parsed.value.label = "Medium"
              /\ Len(parsed.value.issues) = 1
              /\ parsed.value.issues[1].riskType = "uncertain"

\* a fenced block that does not decode, followed by an object in prose: the
\* third strategy returns after the first two failed
C4_Witness ==
    /\ parsed.site = ReturnBraces
    /\ C4_HasBlock(rawText)
    /\ rawText[Len(rawText)] /= RB
    /\ parsed.value = FullObject

\* a tagged fenced block decoded by the second strategy
C4_WitnessFenced ==
    /\ parsed.site = ReturnFenced
    /\ rawText[2] = TAG

\* braces in the surrounding prose defeat the third strategy
C4_WitnessFallback ==
    /\ parsed.site = ReturnFallback
    /\ C4_HasBraces(rawText)

(***************************************************************************)
(* Claims about the /analyze handler.                                      *)
(***************************************************************************)
\* the analysis record the last live request got from the parser
C6_Record == parse_llm_response(request.ext.text).value

C6_WellFormed(issues) == SelectSeq(issues, IssueValid)

\* C6: when the analysis record holds a malformed issue entry, analyze drops
\* only that entry: the request succeeds and the response carries the score,
\* label, reports and every well-formed issue of the record.
C6_DropsOnlyMalformedIssue ==
    (/\ request.mode = "live"
     /\ ~request.ext.raises
     /\ C3_Shaped(C6_Record)
     /\ \E i \in 1..Len(C6_Record.issues) : ~IssueValid(C6_Record.issues[i]))
    => /\ response.status = 200
       /\ response.body.score = C6_Record.score
       /\ response.body.label = C6_Record.label
       /\ response.body.complianceReport = C6_Record.complianceReport
       /\ response.body.ndaauditNote = C6_Record.ndaauditNote
       /\ response.body.issues = C6_WellFormed(C6_Record.issues)

\* C7: in live mode, when the external model call fails, analyze answers with
\* the service error: no analysis result, neither the demo simulator's nor the
\* parser's fallback record.
C7_ExternalFailureSurfaces ==
    (request.mode = "live" /\ request.ext.raises)
    => /\ response.status = 500
       /\ response.body = NoBody

\* a live request whose external call raised, after a request that succeeded
C7_Witness ==
    /\ request.mode = "live"
    /\ request.ext.raises
    /\ response.status = 500
    /\ Len(analysis_history) = 1

\* no model credential is present, or the override flag is set to true
C8_DemoConfigured(cfg) ==
    \/ cfg.apiKey = "unset"
    \/ cfg.apiKey = ""
    \/ cfg.demoMode \in {"true", "TRUE", "True"}

\* C8: every analyze request that passes validation selects its mode from
\* the configuration as it is at that request: demo mode if and only if no
\* model credential is present or the override flag is true, live mode
\* otherwise, whatever modes earlier requests used.
C8_ModeFromCurrentConfig ==
    [][(config' = config /\ now' = now /\ request'.mode /= "none")
        => /\ request'.mode \in {"demo", "live"}
           /\ (request'.mode = "demo") <=> C8_DemoConfigured(config)]_vars

\* a demo request forced by the override flag, after an earlier live request
\* left the out-of-range score of its completion in the history
C8_Witness ==
    /\ request.mode = "demo"
    /\ config = [apiKey |-> "key", demoMode |-> "TRUE"]
    /\ Len(analysis_history) = 2
    /\ analysis_history[2].score = 150
    /\ response.status = 200

\* C9: every result analyze returns, in demo mode and in live mode, has a
\* score between 0 and 100 and a label among High, Medium and Low.
C9_ScoreAndLabelInRange ==
    response.status = 200 =>
        /\ 0 <= response.body.score
        /\ response.body.score <= 100
        /\ response.body.label \in {"High", "Medium", "Low"}

\* the history a successful request leaves: its entry in front of the
\* entries before, the oldest of them evicted when there were 50 already
C10_Inserted(before, after) ==
    /\ Len(after) = (IF Len(before) >= 50 THEN 50 ELSE Len(before) + 1)
    /\ after[1].timestamp = now
    /\ \A i \in 2..Len(after) : after[i] = before[i - 1]

\* C10: the history holds at most 50 entries, newest first; each successful
\* request inserts exactly one entry at the front and evicts the oldest when
\* the length would exceed 50; a failed request (validation error or service
\* error) leaves the history unchanged.
C10_BoundedNewestFirst ==
    /\ [](/\ Len(analysis_history) <= 50
          /\ \A i \in 1..(Len(analysis_history) - 1) :
                analysis_history[i].timestamp >= analysis_history[i + 1].timestamp)
    /\ [][(config' = config /\ now' = now)
            => /\ response'.status = 200
                    => C10_Inserted(analysis_history, analysis_history')
               /\ response'.status /= 200
                    => analysis_history' = analysis_history]_vars

\* a full history with entries of both seconds, and a failed request after it
C10_Witness ==
    /\ Len(analysis_history) = 50
    /\ analysis_history[1].timestamp > analysis_history[50].timestamp
    /\ response.status = 500
    /\ request.mode = "live"

(***************************************************************************)
(* Claim about the generator the demo simulator draws from.                *)
(***************************************************************************)
\* C11: a call of generate_demo_analysis draws from a generator of its own
\* and leaves the process-wide generator as it was, so that what another
\* caller draws from the process-wide generator next is the same whether or
\* not the call ran in between.
C11_SharedGeneratorUntouched ==
    [][/\ rng' = rng
       /\ randint(rng', 45, 85).val = randint(rng, 45, 85).val]_vars

====
